---- MODULE Spec2Model ----
(***************************************************************************)
(* Page objects, fixtures and helpers of the playwright-saucelabs suite,   *)
(* driven against one browser session.  The page under test is a record    *)
(* `page`; every Playwright primitive (fill, click, isVisible, count) is   *)
(* a function of that record, and every page-object method is the          *)
(* composition of primitives its source performs.  What the site does in   *)
(* answer to a click is taken from the assertions of the suite's tests.    *)
(***************************************************************************)
EXTENDS Integers, Sequences, FiniteSets, TLC

VARIABLES
  page,        \* the browser session: screen, form fields, errors, cart
  phase,       \* position of the test invocation: fixture steps, body, failed
  setupLog,    \* fixture steps completed so far, in order
  last,        \* the page-object call made last: name, argument, page before it
  ordered,     \* a purchase was finished in this session
  seenOverview,\* the current checkout flow has shown the overview step
  added,       \* names the scenario added and did not remove since
  cartLog,     \* the running scenario's first add/remove calls, with what was read after each
  rpc,         \* retryAction: position in the function
  maxAttempts, \* retryAction: its maxAttempts argument
  attempt,     \* retryAction: the loop variable
  lastError,   \* retryAction: the local lastError
  calls,       \* retryAction: outcome of every invocation of the action, in order
  waits,       \* retryAction: number of wait(delayMs) calls made
  outcome,     \* retryAction: what the call returned or threw
  scenarios,   \* the runner's concurrent scenarios: page, position and calls made of each
  runner,      \* the runner's fixture setup for the test invocation it is on
  helper       \* the test-helpers call under way: function, arguments, locals, result

sessionVars == <<page, phase, setupLog, last, ordered, seenOverview, added, cartLog>>
retryVars == <<rpc, maxAttempts, attempt, lastError, calls, waits, outcome>>
runnerVars == <<scenarios, runner>>
helperVars == <<helper>>
vars == <<page, phase, setupLog, last, ordered, seenOverview, added, cartLog,
          rpc, maxAttempts, attempt, lastError, calls, waits, outcome,
          scenarios, runner, helper>>

(***************************************************************************)
(* Bounds                                                                  *)
(***************************************************************************)
NumProducts == 2      \* catalog items in the session
MaxLog == 4           \* add/remove calls recorded in cartLog
MaxAttempts == 4      \* largest maxAttempts passed to retryAction
MaxLen == 2           \* longest array passed to a helper of test-helpers.ts
MaxPrice == 1200      \* largest price passed to formatPrice, in thousandths of a dollar

(***************************************************************************)
(* Test data                                                               *)
(***************************************************************************)
\* A product name is a sequence of characters; the catalog's names are
\* pairwise distinct and none is part of another.
Catalog == { <<i>> : i \in 1..NumProducts }
NoSuchProduct == <<0>>
ProductNames == Catalog \cup {NoSuchProduct}

\* Prices are amounts in cents.  The first two products carry the two
\* prices the total-calculation scenario adds up; further items repeat them.
PriceValues == {999, 2999}
ListedPrices == [n \in Catalog |-> IF n[1] % 2 = 1 THEN 2999 ELSE 999]

validUsers ==
  << [username |-> "standard_user", password |-> "secret_sauce", tag |-> "valid"],
     [username |-> "problem_user", password |-> "secret_sauce", tag |-> "valid"],
     [username |-> "performance_glitch_user", password |-> "secret_sauce", tag |-> "valid"] >>
lockedOutUser ==
  [username |-> "locked_out_user", password |-> "secret_sauce", tag |-> "locked"]
invalidUser ==
  [username |-> "invalid_user", password |-> "wrong_password", tag |-> "invalid"]
Credentials ==
  { validUsers[i] : i \in 1..Len(validUsers) } \cup {lockedOutUser, invalidUser}

\* What a scenario types into the two login fields.
LoginInputs ==
  { <<c.username, c.password>> : c \in Credentials }
    \cup { <<"", "secret_sauce">>, <<"standard_user", "">>, <<"", "">> }

\* What a scenario types into a checkout field.
FieldValues == {"", "John"}

EmptyForm == [firstName |-> "", lastName |-> "", postalCode |-> ""]

(***************************************************************************)
(* The page: selectors and the elements they resolve to                    *)
(***************************************************************************)
\* text is a substring of whole
HasText(whole, text) ==
  \E i \in 0..(Len(whole) - Len(text)) :
    \A j \in 1..Len(text) : whole[i + j] = text[j]

Sel(css) == [css |-> css, text |-> <<>>]
ItemSel(css, productName) == [css |-> css, text |-> productName]

LoginScreenSels == {"#user-name", "#password", "#login-button"}
InfoScreenSels == {"firstName", "lastName", "postalCode", "continue"}
SummaryLabels == {".summary_subtotal_label", ".summary_tax_label", ".summary_total_label"}
HeaderScreens == {"inventory", "cart", "info", "overview", "complete"}

Element(css, item) == [css |-> css, item |-> item]

\* The cart badge of the header: the site shows it while the cart holds
\* something; a page whose badge is not the site's says itself whether it
\* shows.
BadgeShown(pg) == IF pg.badge.bySite THEN pg.cart # {} ELSE pg.badge.visible

\* The elements of the current screen a locator resolves to.
Elements(pg, q) ==
  CASE q.css \in LoginScreenSels ->
         IF pg.screen = "login" THEN {Element(q.css, <<>>)} ELSE {}
    [] q.css = "error" ->
         IF \/ pg.screen = "login" /\ pg.loginError # ""
            \/ pg.screen = "info" /\ pg.checkoutError # ""
         THEN {Element(q.css, <<>>)}
         ELSE {}
    [] q.css = ".inventory_container" ->
         IF pg.screen = "inventory" THEN {Element(q.css, <<>>)} ELSE {}
    [] q.css = "product-sort-container" ->
         IF pg.screen = "inventory" THEN {Element(q.css, <<>>)} ELSE {}
    [] q.css = ".shopping_cart_link" ->
         IF pg.screen \in HeaderScreens THEN {Element(q.css, <<>>)} ELSE {}
    [] q.css = ".shopping_cart_badge" ->
         IF pg.screen \in HeaderScreens /\ BadgeShown(pg) THEN {Element(q.css, <<>>)} ELSE {}
    [] q.css = ".inventory_item add" ->
         IF pg.screen = "inventory"
         THEN { Element(q.css, n) : n \in { m \in DOMAIN pg.prices : HasText(m, q.text) /\ m \notin pg.cart } }
         ELSE {}
    [] q.css = ".inventory_item remove" ->
         IF pg.screen = "inventory"
         THEN { Element(q.css, n) : n \in { m \in DOMAIN pg.prices : HasText(m, q.text) /\ m \in pg.cart } }
         ELSE {}
    [] q.css = ".cart_contents_container" ->
         IF pg.screen = "cart" THEN {Element(q.css, <<>>)} ELSE {}
    [] q.css \in {"continue-shopping", "checkout"} ->
         IF pg.screen = "cart" THEN {Element(q.css, <<>>)} ELSE {}
    [] q.css = ".cart_item" ->
         IF pg.screen \in {"cart", "overview"}
         THEN { Element(q.css, n) : n \in pg.cart }
         ELSE {}
    [] q.css = ".cart_item named" ->
         IF pg.screen \in {"cart", "overview"}
         THEN { Element(q.css, n) : n \in { m \in pg.cart : HasText(m, q.text) } }
         ELSE {}
    [] q.css = ".cart_item remove" ->
         IF pg.screen = "cart"
         THEN { Element(q.css, n) : n \in { m \in pg.cart : HasText(m, q.text) } }
         ELSE {}
    [] q.css \in InfoScreenSels ->
         IF pg.screen = "info" THEN {Element(q.css, <<>>)} ELSE {}
    [] q.css = "cancel" ->
         IF pg.screen \in {"info", "overview"} THEN {Element(q.css, <<>>)} ELSE {}
    [] q.css = "finish" ->
         IF pg.screen = "overview" THEN {Element(q.css, <<>>)} ELSE {}
    [] q.css = ".complete-header" ->
         IF pg.screen = "complete" THEN {Element(q.css, <<>>)} ELSE {}
    [] q.css \in SummaryLabels ->
         IF pg.screen = "overview" THEN {Element(q.css, <<>>)} ELSE {}
    [] q.css = ".cart_item .inventory_item_price" ->
         IF pg.screen \in {"cart", "overview"}
         THEN { Element(q.css, n) : n \in pg.cart }
         ELSE {}
    [] q.css = "back-to-products" ->
         IF pg.screen = "complete" THEN {Element(q.css, <<>>)} ELSE {}
    [] OTHER -> {}

(***************************************************************************)
(* The site: what the page becomes when an element is used                 *)
(***************************************************************************)
\* Leaving a screen discards what was typed into it.
Show(pg, screen) ==
  [pg EXCEPT !.screen = screen,
             !.username = "", !.password = "", !.loginError = "",
             !.form = EmptyForm, !.checkoutError = ""]

AcceptedUsers == { validUsers[i].username : i \in 1..Len(validUsers) }

SiteLogin_passwordFirst(pg) ==
  IF pg.password = "" THEN [pg EXCEPT !.loginError = "Password is required"]
  ELSE IF pg.username = "" THEN [pg EXCEPT !.loginError = "Username is required"]
  ELSE Show(pg, "inventory")

\* Answer of the entry screen to the login button.
SiteLogin(pg) ==
  IF pg.net = "slow" THEN pg
  ELSE IF pg.username = "" THEN [pg EXCEPT !.loginError = "Username is required"]
  ELSE IF pg.password = "" THEN [pg EXCEPT !.loginError = "Password is required"]
  ELSE IF pg.username = lockedOutUser.username /\ pg.password = lockedOutUser.password
    THEN [pg EXCEPT !.loginError = "Sorry, this user has been locked out"]
  ELSE IF pg.username \in AcceptedUsers /\ pg.password = "secret_sauce"
    THEN Show(pg, "inventory")
  ELSE [pg EXCEPT !.loginError = "Username and password do not match"]

AllFilled(form) ==
  form.firstName # "" /\ form.lastName # "" /\ form.postalCode # ""

SiteContinue_skipsOverview(pg) ==
  IF AllFilled(pg.form) THEN Show(pg, "complete")
  ELSE [pg EXCEPT !.checkoutError = "First Name is required"]

\* Answer of the checkout information step to the continue button.
SiteContinue(pg) ==
  IF AllFilled(pg.form) THEN Show(pg, "overview")
  ELSE IF pg.form.firstName = "" THEN [pg EXCEPT !.checkoutError = "First Name is required"]
  ELSE IF pg.form.lastName = "" THEN [pg EXCEPT !.checkoutError = "Last Name is required"]
  ELSE [pg EXCEPT !.checkoutError = "Postal Code is required"]

\* Answer to the cancel button.  The suite asserts the cart screen for the
\* information step only; where the overview step's cancel leads is the
\* site's choice (pg.overviewCancel).
SiteCancel(pg) ==
  IF pg.screen = "info" THEN Show(pg, "cart") ELSE Show(pg, pg.overviewCancel)

\* Answer to the finish button: confirmation, and the session's cart is reset.
SiteFinish(pg) == [Show(pg, "complete") EXCEPT !.cart = {}]

SiteClick(pg, e) ==
  CASE e.css = "#login-button" -> SiteLogin(pg)
    [] e.css = ".shopping_cart_link" -> Show(pg, "cart")
    [] e.css = ".inventory_item add" -> [pg EXCEPT !.cart = @ \cup {e.item}]
    [] e.css = ".inventory_item remove" -> [pg EXCEPT !.cart = @ \ {e.item}]
    [] e.css = ".cart_item remove" -> [pg EXCEPT !.cart = @ \ {e.item}]
    [] e.css = "continue-shopping" -> Show(pg, "inventory")
    [] e.css = "checkout" -> Show(pg, "info")
    [] e.css = "continue" -> SiteContinue(pg)
    [] e.css = "cancel" -> SiteCancel(pg)
    [] e.css = "finish" -> SiteFinish(pg)
    [] e.css = "back-to-products" -> Show(pg, "inventory")
    [] OTHER -> pg

SiteInput(pg, e, v) ==
  CASE e.css = "#user-name" -> [pg EXCEPT !.username = v]
    [] e.css = "#password" -> [pg EXCEPT !.password = v]
    [] e.css = "firstName" -> [pg EXCEPT !.form.firstName = v]
    [] e.css = "lastName" -> [pg EXCEPT !.form.lastName = v]
    [] e.css = "postalCode" -> [pg EXCEPT !.form.postalCode = v]
    [] OTHER -> pg

\* The sort dropdown.  The catalog screen lists pg.listing in order; an
\* option orders it by name or by price, upwards or downwards.
SortOptions == {"az", "za", "lohi", "hilo"}

RECURSIVE NameBefore(_, _)
NameBefore(a, b) ==
  IF a = <<>> THEN b # <<>>
  ELSE IF b = <<>> THEN FALSE
  ELSE IF a[1] # b[1] THEN a[1] < b[1]
  ELSE NameBefore(Tail(a), Tail(b))

KeyBefore(option, x, y) ==
  CASE option = "az" -> NameBefore(x.name, y.name)
    [] option = "za" -> NameBefore(y.name, x.name)
    [] option = "lohi" -> x.price < y.price
    [] option = "hilo" -> y.price < x.price

Orders(n) == { f \in [1..n -> 1..n] : \A i \in 1..n, j \in 1..n : i # j => f[i] # f[j] }

\* The listing in the option's order.  The suite asserts the order of the
\* names and of the prices, never which of two items with equal keys comes
\* first: that is the site's choice (ties).
SiteSort(listing, option, ties) ==
  LET n == Len(listing)
      first(x, y) == \/ KeyBefore(option, x, y)
                     \/ ~KeyBefore(option, y, x) /\ ties[x.id] < ties[y.id]
      p == CHOOSE p \in Orders(n) :
             \A i \in 1..n, j \in 1..n : i < j => first(listing[p[i]], listing[p[j]])
  IN [i \in 1..n |-> listing[p[i]]]

\* A displayed amount: what precedes it, the dollar sign, the amount.
Money(prefix, cents) == [prefix |-> prefix, dollar |-> TRUE, cents |-> cents]

RECURSIVE SumValues(_)
SumValues(f) ==
  IF DOMAIN f = {} THEN 0
  ELSE LET x == CHOOSE x \in DOMAIN f : TRUE
       IN f[x] + SumValues([y \in DOMAIN f \ {x} |-> f[y]])

\* The overview's figures: the prices of the cart's lines added up, the tax
\* on that sum rounded to the cent, and the two together.
SiteSubtotal(pg) == SumValues([n \in pg.cart |-> pg.prices[n]])
SiteTax(pg) == (SiteSubtotal(pg) * pg.taxPercent + 50) \div 100
SiteTotal(pg) == SiteSubtotal(pg) + SiteTax(pg)

\* The badge shows the number of cart lines in decimal.
RECURSIVE Digits(_)
Digits(n) == IF n < 10 THEN <<n>> ELSE Append(Digits(n \div 10), n % 10)
BadgeText(pg) == Digits(Cardinality(pg.cart))

(***************************************************************************)
(* Playwright primitives                                                   *)
(***************************************************************************)
Done(pg) == [ok |-> TRUE, pg |-> pg]
Raise(pg) == [ok |-> FALSE, pg |-> pg]

\* locator.click(): needs exactly one element, else it raises.
Click(pg, q) ==
  IF Cardinality(Elements(pg, q)) = 1
  THEN Done(SiteClick(pg, CHOOSE e \in Elements(pg, q) : TRUE))
  ELSE Raise(pg)

\* locator.fill(value): replaces the field's content.
Fill(pg, q, v) ==
  IF Cardinality(Elements(pg, q)) = 1
  THEN Done(SiteInput(pg, CHOOSE e \in Elements(pg, q) : TRUE, v))
  ELSE Raise(pg)

\* locator.isVisible(): no waiting.
IsVisible(pg, q) == Elements(pg, q) # {}

\* locator.count()
Count(pg, q) == Cardinality(Elements(pg, q))

\* locator.waitFor({state: 'visible'}): raises when the element does not show.
WaitFor(pg, q) == IF IsVisible(pg, q) THEN Done(pg) ELSE Raise(pg)

\* locator.selectOption(value) on the sort dropdown
SelectOption(pg, q, value, ties) ==
  IF Cardinality(Elements(pg, q)) = 1 /\ value \in SortOptions
  THEN Done([pg EXCEPT !.listing = SiteSort(@, value, ties)])
  ELSE Raise(pg)

\* page.goto('/'): the entry screen, unless the site cannot be reached.
Goto(pg) == IF pg.net = "down" THEN Raise(pg) ELSE Done(Show(pg, "login"))

\* parseInt(text, 10) of a string of decimal digits
RECURSIVE ParseInt(_)
ParseInt(text) ==
  IF Len(text) = 1 THEN text[1]
  ELSE 10 * ParseInt(SubSeq(text, 1, Len(text) - 1)) + text[Len(text)]

\* The characters of a badge text: the decimal digits, and one more that
\* stands for every character that is not a digit.
Characters == 0..10
IsDigit(c) == c \in 0..9

\* The value NaN, which no string of digits parses to.
NaN == -1

RECURSIVE LeadingDigits(_)
LeadingDigits(text) ==
  IF text = <<>> \/ ~IsDigit(text[1]) THEN <<>>
  ELSE <<text[1]>> \o LeadingDigits(Tail(text))

\* parseInt(text, 10): the number the text begins with, NaN when it begins
\* with no digit.
parseInt10(text) ==
  IF LeadingDigits(text) = <<>> THEN NaN ELSE ParseInt(LeadingDigits(text))

\* textContent() of a located element
TextContent(pg, q) ==
  CASE q.css = "error" -> IF pg.screen = "login" THEN pg.loginError ELSE pg.checkoutError
    [] q.css = ".shopping_cart_badge" -> IF pg.badge.bySite THEN BadgeText(pg) ELSE pg.badge.text
    [] q.css = ".summary_subtotal_label" -> Money("Item total: ", SiteSubtotal(pg))
    [] q.css = ".summary_tax_label" -> Money("Tax: ", SiteTax(pg))
    [] q.css = ".summary_total_label" -> Money("Total: ", SiteTotal(pg))
    [] q.css = ".complete-header" -> "Thank you for your order!"
    [] OTHER -> <<>>

\* A query's answer: the call returns, the page is as it was.
Answer(pg, value) == [ok |-> TRUE, pg |-> pg, ret |-> value]

\* await locator.textContent(): waits for the one element the locator names
\* and raises when none shows up.
Locator_textContent(pg, q) ==
  IF Cardinality(Elements(pg, q)) = 1 THEN Answer(pg, TextContent(pg, q)) ELSE Raise(pg)

\* locator.allTextContents(): the text of every element found, none awaited.
AllTextContents(pg, q) ==
  [e \in Elements(pg, q) |-> Money("", pg.prices[e.item])]

\* price.replace('$', '')
WithoutDollar(text) == [text EXCEPT !.dollar = FALSE]

\* parseFloat: the amount a text begins with, NaN when it begins with
\* something else.
ParseFloat(text) == IF text.dollar THEN "NaN" ELSE text.cents

\* text.match(/\$(\d+\.\d+)/), then parseFloat(match[1]) or 0
AmountIn(text) == IF text.dollar THEN ParseFloat(WithoutDollar(text)) ELSE 0

Abs(x) == IF x < 0 THEN -x ELSE x

\* 0.01, in cents
Tolerance == 1

(***************************************************************************)
(* LoginPage                                                               *)
(***************************************************************************)
LoginPage_goto(pg) == Goto(pg)

LoginPage_login_swapsFields(pg, username, password) ==
  LET r1 == Fill(pg, Sel("#user-name"), password)
      r2 == IF r1.ok THEN Fill(r1.pg, Sel("#password"), username) ELSE r1
  IN IF r2.ok THEN Click(r2.pg, Sel("#login-button")) ELSE r2

\* Each await runs on the page the one before it left, and only if that
\* one returned.
LoginPage_login(pg, username, password) ==
  LET r1 == Fill(pg, Sel("#user-name"), username)
      r2 == IF r1.ok THEN Fill(r1.pg, Sel("#password"), password) ELSE r1
  IN IF r2.ok THEN Click(r2.pg, Sel("#login-button")) ELSE r2

\* return await this.errorMessage.textContent()
LoginPage_getErrorMessage(pg) == Locator_textContent(pg, Sel("error"))

LoginPage_isOnLoginPage(pg) == IsVisible(pg, Sel("#login-button"))

(***************************************************************************)
(* InventoryPage                                                           *)
(***************************************************************************)
InventoryPage_getAddToCartButton(productName) == ItemSel(".inventory_item add", productName)
InventoryPage_getRemoveButton(productName) == ItemSel(".inventory_item remove", productName)

InventoryPage_isOnInventoryPage(pg) == IsVisible(pg, Sel(".inventory_container"))

InventoryPage_sortProducts_selectsAz(pg, option, ties) ==
  SelectOption(pg, Sel("product-sort-container"), "az", ties)

\* await this.sortDropdown.selectOption(option); ties is the site's part
InventoryPage_sortProducts(pg, option, ties) ==
  SelectOption(pg, Sel("product-sort-container"), option, ties)

\* allTextContents() of the names, in displayed order
InventoryPage_getAllProductNames(pg) ==
  IF pg.screen = "inventory"
  THEN [i \in 1..Len(pg.listing) |-> pg.listing[i].name]
  ELSE <<>>

\* priceTexts.map(price => parseFloat(price.replace('$', ''))), in displayed order
InventoryPage_getAllProductPrices(pg) ==
  IF pg.screen = "inventory"
  THEN [i \in 1..Len(pg.listing) |->
         ParseFloat(WithoutDollar(Money("", pg.listing[i].price)))]
  ELSE <<>>

InventoryPage_addProductToCart(pg, productName) ==
  Click(pg, InventoryPage_getAddToCartButton(productName))

InventoryPage_removeProductFromCart(pg, productName) ==
  Click(pg, InventoryPage_getRemoveButton(productName))

\* One turn of the loop: the await of the turn before has returned, or the
\* loop was left when it raised.
AddNext_afterFailure(r, productName) ==
  LET n == InventoryPage_addProductToCart(r.pg, productName)
  IN [ok |-> r.ok /\ n.ok, pg |-> n.pg]
AddNext(r, productName) ==
  IF r.ok THEN InventoryPage_addProductToCart(r.pg, productName) ELSE r

\* for (const productName of productNames) { await this.addProductToCart(productName) }
RECURSIVE InventoryPage_addMultipleProductsToCart(_, _)
InventoryPage_addMultipleProductsToCart(pg, productNames) ==
  IF productNames = <<>> THEN Done(pg)
  ELSE AddNext(InventoryPage_addMultipleProductsToCart(
                 pg, SubSeq(productNames, 1, Len(productNames) - 1)),
               productNames[Len(productNames)])

InventoryPage_getCartItemCount_negated(pg) ==
  IF IsVisible(pg, Sel(".shopping_cart_badge")) THEN 0
  ELSE LET text == TextContent(pg, Sel(".shopping_cart_badge"))
       IN parseInt10(IF text = <<>> THEN <<0>> ELSE text)

InventoryPage_getCartItemCount(pg) ==
  IF ~IsVisible(pg, Sel(".shopping_cart_badge")) THEN 0
  ELSE LET text == TextContent(pg, Sel(".shopping_cart_badge"))
       IN parseInt10(IF text = <<>> THEN <<0>> ELSE text)

\* ProductPage reads the same badge of the header, with the same code.
ProductPage_getCartItemCount(pg) ==
  IF ~IsVisible(pg, Sel(".shopping_cart_badge")) THEN 0
  ELSE LET text == TextContent(pg, Sel(".shopping_cart_badge"))
       IN parseInt10(IF text = <<>> THEN <<0>> ELSE text)

InventoryPage_goToCart(pg) == Click(pg, Sel(".shopping_cart_link"))

InventoryPage_isProductInCart(pg, productName) ==
  IsVisible(pg, InventoryPage_getRemoveButton(productName))

(***************************************************************************)
(* CartPage                                                                *)
(***************************************************************************)
CartPage_getCartItemByName(productName) == ItemSel(".cart_item named", productName)
CartPage_getRemoveButton(productName) == ItemSel(".cart_item remove", productName)

CartPage_isOnCartPage(pg) == IsVisible(pg, Sel(".cart_contents_container"))
CartPage_getCartItemCount(pg) == Count(pg, Sel(".cart_item"))
CartPage_removeProduct_leavesCart(pg, productName) == Click(pg, Sel("continue-shopping"))
CartPage_removeProduct(pg, productName) == Click(pg, CartPage_getRemoveButton(productName))
\* allTextContents() of the cart lines' names, in displayed order (shown);
\* nothing is awaited, so a screen without cart lines gives the empty list.
CartPage_getAllProductNames(pg, shown) ==
  IF pg.screen \in {"cart", "overview"} THEN shown ELSE <<>>

\* One turn of the loop of removeAllProducts.
RemoveNext(r, name) == IF r.ok THEN CartPage_removeProduct(r.pg, name) ELSE r

\* for (const name of productNames) { await this.removeProduct(name) }
RECURSIVE RemoveEach(_, _)
RemoveEach(pg, productNames) ==
  IF productNames = <<>> THEN Done(pg)
  ELSE RemoveNext(RemoveEach(pg, SubSeq(productNames, 1, Len(productNames) - 1)),
                  productNames[Len(productNames)])

CartPage_removeAllProducts_skipsLast(pg, shown) ==
  LET productNames == CartPage_getAllProductNames(pg, shown)
  IN RemoveEach(pg, SubSeq(productNames, 1, Len(productNames) - 1))

\* const productNames = await this.getAllProductNames(); then the loop
CartPage_removeAllProducts(pg, shown) ==
  LET productNames == CartPage_getAllProductNames(pg, shown)
  IN RemoveEach(pg, productNames)

CartPage_continueShopping(pg) == Click(pg, Sel("continue-shopping"))
CartPage_checkout_clicksRemove(pg) == Click(pg, CartPage_getRemoveButton(<<>>))
CartPage_checkout(pg) == Click(pg, Sel("checkout"))
CartPage_isProductInCart(pg, productName) == IsVisible(pg, CartPage_getCartItemByName(productName))
CartPage_isEmpty(pg) == CartPage_getCartItemCount(pg) = 0

\* priceTexts.map(price => parseFloat(price.replace('$', '')))
CartPage_getAllProductPrices(pg) ==
  LET priceTexts == AllTextContents(pg, Sel(".cart_item .inventory_item_price"))
  IN [e \in DOMAIN priceTexts |-> ParseFloat(WithoutDollar(priceTexts[e]))]

\* prices.reduce((total, price) => total + price, 0)
CartPage_getTotalPrice_count(pg) == Cardinality(DOMAIN CartPage_getAllProductPrices(pg))
CartPage_getTotalPrice(pg) == SumValues(CartPage_getAllProductPrices(pg))

(***************************************************************************)
(* CheckoutPage                                                            *)
(***************************************************************************)
\* The fill() calls a method awaits, one after the other; the first one that
\* raises ends the method.
RECURSIVE FillEach(_, _)
FillEach(pg, fills) ==
  IF fills = <<>> THEN Done(pg)
  ELSE LET r == Fill(pg, fills[1].q, fills[1].v)
       IN IF r.ok THEN FillEach(r.pg, Tail(fills)) ELSE r

CheckoutPage_fillCheckoutInfo_fills_lastNameFirst(info) ==
  << [q |-> Sel("lastName"), v |-> info.lastName],
     [q |-> Sel("firstName"), v |-> info.firstName],
     [q |-> Sel("postalCode"), v |-> info.postalCode] >>

CheckoutPage_fillCheckoutInfo_fills(info) ==
  << [q |-> Sel("firstName"), v |-> info.firstName],
     [q |-> Sel("lastName"), v |-> info.lastName],
     [q |-> Sel("postalCode"), v |-> info.postalCode] >>

CheckoutPage_fillCheckoutInfo(pg, info) ==
  FillEach(pg, CheckoutPage_fillCheckoutInfo_fills(info))

CheckoutPage_fillCheckoutForm_fills(firstName, lastName, postalCode) ==
  << [q |-> Sel("firstName"), v |-> firstName],
     [q |-> Sel("lastName"), v |-> lastName],
     [q |-> Sel("postalCode"), v |-> postalCode] >>

CheckoutPage_fillCheckoutForm(pg, firstName, lastName, postalCode) ==
  LET r1 == Fill(pg, Sel("firstName"), firstName)
      r2 == IF r1.ok THEN Fill(r1.pg, Sel("lastName"), lastName) ELSE r1
  IN IF r2.ok THEN Fill(r2.pg, Sel("postalCode"), postalCode) ELSE r2

CheckoutPage_continue_clicksCancel(pg) == Click(pg, Sel("cancel"))
CheckoutPage_continue(pg) == Click(pg, Sel("continue"))
CheckoutPage_cancel_clicksContinue(pg) == Click(pg, Sel("continue"))
CheckoutPage_cancel(pg) == Click(pg, Sel("cancel"))
CheckoutPage_hasError(pg) == IsVisible(pg, Sel("error"))
CheckoutPage_finish(pg) == Click(pg, Sel("finish"))

CheckoutPage_completeCheckoutInfo(pg, info) ==
  LET r == CheckoutPage_fillCheckoutInfo(pg, info)
  IN IF r.ok THEN CheckoutPage_continue(r.pg) ELSE r

CheckoutPage_completeCheckout_skipsFinish(pg, info) ==
  CheckoutPage_completeCheckoutInfo(pg, info)

CheckoutPage_completeCheckout(pg, info) ==
  LET r == CheckoutPage_completeCheckoutInfo(pg, info)
  IN IF r.ok THEN CheckoutPage_finish(r.pg) ELSE r
CheckoutPage_isOrderComplete(pg) == IsVisible(pg, Sel(".complete-header"))
CheckoutPage_backHome_opensCart(pg) == Click(pg, Sel(".shopping_cart_link"))
CheckoutPage_backHome(pg) == Click(pg, Sel("back-to-products"))
CheckoutPage_isOnCheckoutInfoStep(pg) == IsVisible(pg, Sel("firstName"))
CheckoutPage_isOnCheckoutOverviewStep(pg) == IsVisible(pg, Sel("finish"))

CheckoutPage_getErrorMessage(pg) == Locator_textContent(pg, Sel("error"))

\* The three figures of the overview: the label's text, then the amount
\* after its dollar sign.
CheckoutPage_getAmount(pg, label) ==
  LET text == Locator_textContent(pg, Sel(label))
  IN IF text.ok THEN Answer(pg, AmountIn(text.ret)) ELSE text

CheckoutPage_getSubtotal(pg) == CheckoutPage_getAmount(pg, ".summary_subtotal_label")
CheckoutPage_getTax(pg) == CheckoutPage_getAmount(pg, ".summary_tax_label")
CheckoutPage_getTotal(pg) == CheckoutPage_getAmount(pg, ".summary_total_label")

CheckoutPage_getCompleteHeader(pg) == Locator_textContent(pg, Sel(".complete-header"))

CheckoutPage_verifyTotal_ignoresTax(pg) ==
  LET subtotal == CheckoutPage_getSubtotal(pg)
      tax == IF subtotal.ok THEN CheckoutPage_getTax(subtotal.pg) ELSE subtotal
      total == IF tax.ok THEN CheckoutPage_getTotal(tax.pg) ELSE tax
  IN IF total.ok
     THEN Answer(total.pg, Abs(total.ret - subtotal.ret) < Tolerance)
     ELSE total

\* return Math.abs(total - (subtotal + tax)) < 0.01
CheckoutPage_verifyTotal(pg) ==
  LET subtotal == CheckoutPage_getSubtotal(pg)
      tax == IF subtotal.ok THEN CheckoutPage_getTax(subtotal.pg) ELSE subtotal
      total == IF tax.ok THEN CheckoutPage_getTotal(tax.pg) ELSE tax
  IN IF total.ok
     THEN Answer(total.pg, Abs(total.ret - (subtotal.ret + tax.ret)) < Tolerance)
     ELSE total

(***************************************************************************)
(* A scenario: page-object calls made one after the other on the session   *)
(***************************************************************************)
AddOps == {"InventoryPage.addProductToCart"}
RemoveOps == {"InventoryPage.removeProductFromCart", "CartPage.removeProduct"}
BulkOps == {"InventoryPage.addMultipleProductsToCart", "CartPage.removeAllProducts"}

\* The orders in which the lines of a cart may be displayed.
Enumerations(S) ==
  { s \in [1..Cardinality(S) -> S] :
      \A i \in 1..Cardinality(S), j \in 1..Cardinality(S) : i # j => s[i] # s[j] }

\* Lists of names a scenario passes to a call that takes several.
MaxNames == 2
RECURSIVE NameLists(_)
NameLists(n) ==
  IF n = 0 THEN {<<>>}
  ELSE NameLists(n - 1) \cup
       { Append(l, m) : l \in { k \in NameLists(n - 1) : Len(k) = n - 1 }, m \in ProductNames }

\* Position of the first name of the list that has no add button on the
\* catalog screen when its turn comes: not a catalog item, or in the cart
\* already; one past the end when every name has one.
FirstWithoutButton(pg, productNames) ==
  LET without == { i \in 1..Len(productNames) :
                     \/ productNames[i] \notin Catalog
                     \/ productNames[i] \in pg.cart
                     \/ \E j \in 1..(i - 1) : productNames[j] = productNames[i] }
  IN IF pg.screen # "inventory" THEN 1
     ELSE IF without = {} THEN Len(productNames) + 1
     ELSE CHOOSE i \in without : \A j \in without : i <= j

NamesBefore(productNames, k) == { productNames[j] : j \in 1..(k - 1) }

\* What a scenario reads about the cart on the screen it is on.
ReadCart(pg, productName) ==
  IF pg.screen = "cart"
  THEN [count |-> CartPage_getCartItemCount(pg),
        shown |-> CartPage_isProductInCart(pg, productName)]
  ELSE [count |-> InventoryPage_getCartItemCount(pg),
        shown |-> InventoryPage_isProductInCart(pg, productName)]

\* cartLog follows a scenario from its empty cart for as long as its add and
\* remove calls name one and the same product and it buys nothing, up to
\* MaxLog calls.
OpenLog == [open |-> TRUE, calls |-> <<>>]
ClosedLog == [open |-> FALSE, calls |-> <<>>]
Logged(log, entry) ==
  IF ~log.open THEN log
  ELSE IF log.calls # <<>> /\ log.calls[1].name # entry.name THEN ClosedLog
  ELSE IF Len(log.calls) = MaxLog THEN ClosedLog
  ELSE [log EXCEPT !.calls = Append(@, entry)]

\* What the awaited call gave back: the value of a query, nothing for a
\* call that acts, nothing for one that raised.
Returned(r) == IF r.ok /\ "ret" \in DOMAIN r THEN r.ret ELSE "void"

\* The calls that click the finish button.
FinishOps == {"CheckoutPage.finish", "CheckoutPage.completeCheckout"}

\* One awaited call of the scenario.  A call that raises ends the scenario.
Call(op, arg, r) ==
  /\ phase = "body"
  /\ page' = r.pg
  /\ phase' = IF r.ok THEN "body" ELSE "failed"
  /\ last' = [op |-> op, arg |-> arg, pre |-> page, ok |-> r.ok, ret |-> Returned(r)]
  /\ ordered' = (ordered \/ (op \in FinishOps /\ r.ok))
  /\ seenOverview' =
       IF r.pg.screen = "overview" \/ (op = "CheckoutPage.completeCheckout" /\ r.ok) THEN TRUE
       ELSE IF r.pg.screen \in {"info", "complete"} THEN seenOverview
       ELSE FALSE
  /\ added' =
       IF op = "InventoryPage.addMultipleProductsToCart"
       THEN added \cup NamesBefore(arg, FirstWithoutButton(page, arg))
       ELSE IF op = "CartPage.removeAllProducts"
       THEN (IF r.ok /\ page.screen = "cart" THEN {} ELSE added)
       ELSE IF r.ok /\ op \in AddOps THEN added \cup {arg}
       ELSE IF r.ok /\ op \in RemoveOps THEN added \ {arg}
       ELSE added
  /\ cartLog' =
       IF ~r.ok \/ op \in FinishOps \/ op \in BulkOps THEN ClosedLog
       ELSE IF op \in AddOps \cup RemoveOps
       THEN Logged(cartLog, [op |-> op, name |-> arg, read |-> ReadCart(r.pg, arg)])
       ELSE cartLog
  /\ UNCHANGED setupLog
  /\ UNCHANGED retryVars
  /\ UNCHANGED runnerVars
  /\ UNCHANGED helperVars

\* Scenarios open the entry point before anything else; they do not go back
\* to it in the middle of a session.
Do_goto ==
  /\ page.screen \in {"blank", "login"}
  /\ Call("LoginPage.goto", <<>>, LoginPage_goto(page))

Do_login ==
  \E in \in LoginInputs :
    Call("LoginPage.login", in, LoginPage_login(page, in[1], in[2]))

\* The names a scenario passes: those of the products the site lists, and
\* one of no product.
NamesOn(pg) == DOMAIN pg.prices \cup {NoSuchProduct}

Do_addProductToCart ==
  \E n \in NamesOn(page) :
    Call("InventoryPage.addProductToCart", n, InventoryPage_addProductToCart(page, n))

\* Scenarios add several products from the catalog screen.
Do_addMultipleProductsToCart ==
  \E names \in NameLists(MaxNames) :
    /\ InventoryPage_isOnInventoryPage(page)
    /\ Call("InventoryPage.addMultipleProductsToCart", names,
         InventoryPage_addMultipleProductsToCart(page, names))

Do_removeProductFromCart ==
  \E n \in NamesOn(page) :
    Call("InventoryPage.removeProductFromCart", n, InventoryPage_removeProductFromCart(page, n))

Do_goToCart == Call("InventoryPage.goToCart", <<>>, InventoryPage_goToCart(page))

Do_removeProduct ==
  \E n \in NamesOn(page) :
    Call("CartPage.removeProduct", n, CartPage_removeProduct(page, n))

Do_removeAllProducts ==
  \E shown \in Enumerations(page.cart) :
    Call("CartPage.removeAllProducts", <<>>, CartPage_removeAllProducts(page, shown))

Do_continueShopping == Call("CartPage.continueShopping", <<>>, CartPage_continueShopping(page))

Do_checkout == Call("CartPage.checkout", <<>>, CartPage_checkout(page))

Do_fillCheckoutForm ==
  \E f \in FieldValues, l \in FieldValues, z \in FieldValues :
    Call("CheckoutPage.fillCheckoutForm",
         [firstName |-> f, lastName |-> l, postalCode |-> z],
         CheckoutPage_fillCheckoutForm(page, f, l, z))

CheckoutInfos == [firstName : FieldValues, lastName : FieldValues, postalCode : FieldValues]

Do_fillCheckoutInfo ==
  \E info \in CheckoutInfos :
    Call("CheckoutPage.fillCheckoutInfo", info, CheckoutPage_fillCheckoutInfo(page, info))

Do_completeCheckout ==
  \E info \in CheckoutInfos :
    Call("CheckoutPage.completeCheckout", info, CheckoutPage_completeCheckout(page, info))

Do_continue == Call("CheckoutPage.continue", <<>>, CheckoutPage_continue(page))

Do_cancel == Call("CheckoutPage.cancel", <<>>, CheckoutPage_cancel(page))

Do_finish == Call("CheckoutPage.finish", <<>>, CheckoutPage_finish(page))

Do_backHome == Call("CheckoutPage.backHome", <<>>, CheckoutPage_backHome(page))

Do_sortProducts ==
  \E option \in SortOptions, ties \in Orders(Len(page.listing)) :
    Call("InventoryPage.sortProducts", option, InventoryPage_sortProducts(page, option, ties))

Do_getAllProductNames ==
  Call("InventoryPage.getAllProductNames", <<>>,
       Answer(page, InventoryPage_getAllProductNames(page)))

Do_getAllProductPrices ==
  Call("InventoryPage.getAllProductPrices", <<>>,
       Answer(page, InventoryPage_getAllProductPrices(page)))

\* Queries: the scenario reads the page and goes on, or the read raises.
Do_loginGetErrorMessage ==
  Call("LoginPage.getErrorMessage", <<>>, LoginPage_getErrorMessage(page))

Do_getCartItemCount ==
  Call("InventoryPage.getCartItemCount", <<>>, Answer(page, InventoryPage_getCartItemCount(page)))

Do_productGetCartItemCount ==
  Call("ProductPage.getCartItemCount", <<>>, Answer(page, ProductPage_getCartItemCount(page)))

Do_cartGetCartItemCount ==
  Call("CartPage.getCartItemCount", <<>>, Answer(page, CartPage_getCartItemCount(page)))

Do_getTotalPrice ==
  Call("CartPage.getTotalPrice", <<>>, Answer(page, CartPage_getTotalPrice(page)))

Do_getErrorMessage ==
  Call("CheckoutPage.getErrorMessage", <<>>, CheckoutPage_getErrorMessage(page))

Do_hasError ==
  Call("CheckoutPage.hasError", <<>>, Answer(page, CheckoutPage_hasError(page)))

Do_getSubtotal == Call("CheckoutPage.getSubtotal", <<>>, CheckoutPage_getSubtotal(page))

Do_getTax == Call("CheckoutPage.getTax", <<>>, CheckoutPage_getTax(page))

Do_getTotal == Call("CheckoutPage.getTotal", <<>>, CheckoutPage_getTotal(page))

Do_verifyTotal == Call("CheckoutPage.verifyTotal", <<>>, CheckoutPage_verifyTotal(page))

Do_isOrderComplete ==
  Call("CheckoutPage.isOrderComplete", <<>>, Answer(page, CheckoutPage_isOrderComplete(page)))

Do_getCompleteHeader ==
  Call("CheckoutPage.getCompleteHeader", <<>>, CheckoutPage_getCompleteHeader(page))

(***************************************************************************)
(* Specification of a scenario on the built-in page fixture                *)
(***************************************************************************)
NewPage(net, overviewCancel) ==
  [screen |-> "blank", username |-> "", password |-> "", loginError |-> "",
   cart |-> {}, form |-> EmptyForm, checkoutError |-> "",
   net |-> net, overviewCancel |-> overviewCancel,
   prices |-> ListedPrices, taxPercent |-> 8,
   badge |-> [bySite |-> TRUE, visible |-> FALSE, text |-> <<>>],
   listing |-> [i \in 1..NumProducts |->
                 [id |-> i, name |-> <<i>>, price |-> ListedPrices[<<i>>]]]]

NoCall ==
  [op |-> "none", arg |-> <<>>, pre |-> NewPage("up", "cart"), ok |-> TRUE, ret |-> "void"]

InitRetryIdle ==
  /\ rpc = "idle"
  /\ maxAttempts = 0
  /\ attempt = 0
  /\ lastError = "undefined"
  /\ calls = <<>>
  /\ waits = 0
  /\ outcome = [kind |-> "none"]

\* No concurrent scenarios, no invocation under setup.
InitRunnerIdle ==
  /\ scenarios = <<>>
  /\ runner = [stage |-> "idle"]

\* No test-helpers call under way.
InitHelperIdle == helper = [fn |-> "none"]

InitSession(nets, cancels, startPhase) ==
  /\ \E net \in nets, oc \in cancels : page = NewPage(net, oc)
  /\ phase = startPhase
  /\ setupLog = <<>>
  /\ last = NoCall
  /\ ordered = FALSE
  /\ seenOverview = FALSE
  /\ added = {}
  /\ cartLog = OpenLog

Init ==
  /\ InitSession({"up"}, {"cart", "inventory"}, "body")
  /\ InitRetryIdle
  /\ InitRunnerIdle
  /\ InitHelperIdle

\* The calls of a scenario that is logged in.
Shopping ==
  \/ Do_addProductToCart
  \/ Do_addMultipleProductsToCart
  \/ Do_removeProductFromCart
  \/ Do_goToCart
  \/ Do_removeProduct
  \/ Do_removeAllProducts
  \/ Do_continueShopping
  \/ Do_checkout
  \/ Do_fillCheckoutForm
  \/ Do_fillCheckoutInfo
  \/ Do_completeCheckout
  \/ Do_continue
  \/ Do_cancel
  \/ Do_finish
  \/ Do_backHome

\* The reads of a scenario.
Asking ==
  \/ Do_loginGetErrorMessage
  \/ Do_getCartItemCount
  \/ Do_cartGetCartItemCount
  \/ Do_getTotalPrice
  \/ Do_getErrorMessage
  \/ Do_hasError
  \/ Do_getSubtotal
  \/ Do_getTax
  \/ Do_getTotal
  \/ Do_verifyTotal
  \/ Do_isOrderComplete
  \/ Do_getCompleteHeader

Next ==
  \/ Do_goto
  \/ Do_login
  \/ Shopping
  \/ Asking

Spec == Init /\ [][Next]_vars

(***************************************************************************)
(* The total-calculation scenario, for every pricing of the catalog        *)
(***************************************************************************)
InitTotals ==
  /\ \E prices \in [Catalog -> PriceValues] :
       page = [NewPage("up", "cart") EXCEPT !.prices = prices]
  /\ phase = "body"
  /\ setupLog = <<>>
  /\ last = NoCall
  /\ ordered = FALSE
  /\ seenOverview = FALSE
  /\ added = {}
  /\ cartLog = ClosedLog
  /\ InitRetryIdle
  /\ InitRunnerIdle
  /\ InitHelperIdle

NextTotals ==
  \/ Do_goto
  \/ Do_login
  \/ Do_addProductToCart
  \/ Do_goToCart
  \/ Do_getTotalPrice
  \/ Do_checkout
  \/ Do_fillCheckoutForm
  \/ Do_continue
  \/ Do_getSubtotal
  \/ Do_getTax
  \/ Do_getTotal
  \/ Do_verifyTotal

SpecTotals == InitTotals /\ [][NextTotals]_vars

(***************************************************************************)
(* The sorting scenarios, for every catalog of names and prices            *)
(***************************************************************************)
InitSort ==
  /\ \E names \in [1..NumProducts -> Catalog], prices \in [1..NumProducts -> PriceValues] :
       page = [NewPage("up", "cart") EXCEPT
                 !.listing = [i \in 1..NumProducts |->
                               [id |-> i, name |-> names[i], price |-> prices[i]]]]
  /\ phase = "body"
  /\ setupLog = <<>>
  /\ last = NoCall
  /\ ordered = FALSE
  /\ seenOverview = FALSE
  /\ added = {}
  /\ cartLog = ClosedLog
  /\ InitRetryIdle
  /\ InitRunnerIdle
  /\ InitHelperIdle

NextSort ==
  \/ Do_goto
  \/ Do_login
  \/ Do_sortProducts
  \/ Do_getAllProductNames
  \/ Do_getAllProductPrices

SpecSort == InitSort /\ [][NextSort]_vars

(***************************************************************************)
(* The authenticatedPage fixture                                           *)
(***************************************************************************)
\* One awaited step of the fixture function; a step that raises fails the
\* invocation.
FixtureStep(at, op, r, next) ==
  /\ phase = at
  /\ page' = r.pg
  /\ phase' = IF r.ok THEN next ELSE "failed"
  /\ setupLog' = IF r.ok THEN Append(setupLog, op) ELSE setupLog
  /\ last' = [op |-> op, arg |-> <<>>, pre |-> page, ok |-> r.ok, ret |-> "void"]
  /\ UNCHANGED <<ordered, seenOverview, added, cartLog>>
  /\ UNCHANGED retryVars
  /\ UNCHANGED runnerVars
  /\ UNCHANGED helperVars

\* await loginPage.goto()
Fixture_goto == FixtureStep("goto", "goto", LoginPage_goto(page), "login")

\* await loginPage.login(user.username, user.password), user = users.validUsers[0]
Fixture_login ==
  LET user == validUsers[1]
  IN FixtureStep("login", "login",
                 LoginPage_login(page, user.username, user.password), "waitFor")

Fixture_waitFor_noWait ==
  FixtureStep("waitFor", "waitFor", Done(page), "use")

\* await inventoryPage.inventoryContainer.waitFor({ state: 'visible' })
Fixture_waitFor ==
  FixtureStep("waitFor", "waitFor", WaitFor(page, Sel(".inventory_container")), "use")

\* await use(page): the test body starts
Fixture_use ==
  /\ phase = "use"
  /\ phase' = "body"
  /\ UNCHANGED <<page, setupLog, last, ordered, seenOverview, added, cartLog>>
  /\ UNCHANGED retryVars
  /\ UNCHANGED runnerVars
  /\ UNCHANGED helperVars

InitFixture ==
  /\ InitSession({"up", "slow", "down"}, {"cart", "inventory"}, "goto")
  /\ InitRetryIdle
  /\ InitRunnerIdle
  /\ InitHelperIdle

NextFixture ==
  \/ Fixture_goto
  \/ Fixture_login
  \/ Fixture_waitFor
  \/ Fixture_use
  \/ Shopping

SpecFixture == InitFixture /\ [][NextFixture]_vars

(***************************************************************************)
(* retryAction(action, maxAttempts, delayMs)                                *)
(***************************************************************************)
\* What one invocation of the action may do: resolve with a value, or
\* reject with an Error carrying a message.
Values == {"v1", "v2"}
Messages == {"e1", "e2"}
Outcomes ==
  { [ok |-> TRUE, value |-> v] : v \in Values }
    \cup { [ok |-> FALSE, message |-> m] : m \in Messages }

\* the loop condition: attempt <= maxAttempts
RetryLoopCondition_offByOne(a, m) == a <= m + 1
RetryLoopCondition(a, m) == a <= m

\* catch (error) { lastError = error as Error }
CatchError_keepsFirst(previous, message) ==
  IF previous = "undefined" THEN message ELSE previous
CatchError(previous, message) == message

\* if (attempt < maxAttempts) { await wait(delayMs) }
RetryWaitCondition_always(a, m) == TRUE
RetryWaitCondition(a, m) == a < m

\* for (attempt ...) { try { return await action() } catch { lastError = error ... } }
Retry_attempt ==
  /\ rpc = "loop"
  /\ RetryLoopCondition(attempt, maxAttempts)
  /\ \E o \in Outcomes :
       /\ calls' = Append(calls, o)
       /\ IF o.ok
          THEN /\ rpc' = "returned"
               /\ outcome' = [kind |-> "returned", value |-> o.value]
               /\ UNCHANGED <<lastError, attempt>>
          ELSE /\ lastError' = CatchError(lastError, o.message)
               /\ outcome' = outcome
               /\ IF RetryWaitCondition(attempt, maxAttempts)
                  THEN rpc' = "wait" /\ attempt' = attempt
                  ELSE rpc' = "loop" /\ attempt' = attempt + 1
  /\ UNCHANGED <<maxAttempts, waits>>
  /\ UNCHANGED sessionVars
  /\ UNCHANGED runnerVars
  /\ UNCHANGED helperVars

\* await wait(delayMs), then the loop's attempt++
Retry_wait ==
  /\ rpc = "wait"
  /\ waits' = waits + 1
  /\ attempt' = attempt + 1
  /\ rpc' = "loop"
  /\ UNCHANGED <<maxAttempts, lastError, calls, outcome>>
  /\ UNCHANGED sessionVars
  /\ UNCHANGED runnerVars
  /\ UNCHANGED helperVars

\* throw new Error(`Action failed after ${maxAttempts} attempts. Last error: ${lastError?.message}`)
Retry_throw ==
  /\ rpc = "loop"
  /\ ~RetryLoopCondition(attempt, maxAttempts)
  /\ rpc' = "thrown"
  /\ outcome' = [kind |-> "thrown", attempts |-> maxAttempts, quoted |-> <<lastError>>]
  /\ UNCHANGED <<maxAttempts, attempt, lastError, calls, waits>>
  /\ UNCHANGED sessionVars
  /\ UNCHANGED runnerVars
  /\ UNCHANGED helperVars

InitRetry ==
  /\ InitSession({"up"}, {"cart"}, "idle")
  /\ rpc = "loop"
  /\ maxAttempts \in 0..MaxAttempts
  /\ attempt = 1
  /\ lastError = "undefined"
  /\ calls = <<>>
  /\ waits = 0
  /\ outcome = [kind |-> "none"]
  /\ InitRunnerIdle
  /\ InitHelperIdle

NextRetry ==
  \/ Retry_attempt
  \/ Retry_wait
  \/ Retry_throw

SpecRetry == InitRetry /\ [][NextRetry]_vars

(***************************************************************************)
(* Scenarios the runner executes in parallel                               *)
(***************************************************************************)
NumScenarios == 2     \* scenarios running at the same time
MaxSteps == 3         \* calls a concurrent scenario makes

\* The calls the concurrent scenarios draw from.
ScenarioCalls ==
  { [op |-> "LoginPage.goto", arg |-> <<>>],
    [op |-> "LoginPage.login", arg |-> <<validUsers[1].username, validUsers[1].password>>],
    [op |-> "InventoryPage.addProductToCart", arg |-> <<1>>],
    [op |-> "InventoryPage.addProductToCart", arg |-> NoSuchProduct],
    [op |-> "InventoryPage.goToCart", arg |-> <<>>] }

Perform(pg, c) ==
  CASE c.op = "LoginPage.goto" -> LoginPage_goto(pg)
    [] c.op = "LoginPage.login" -> LoginPage_login(pg, c.arg[1], c.arg[2])
    [] c.op = "InventoryPage.addProductToCart" -> InventoryPage_addProductToCart(pg, c.arg)
    [] c.op = "InventoryPage.goToCart" -> InventoryPage_goToCart(pg)

\* The page the page objects of scenario s drive: the one its test function
\* received and passed to their constructors.
PageOf_shared(s) == 1
PageOf(s) == s

\* One awaited call of scenario s, at any moment of the others' runs.
Scenario_call(s, c) ==
  /\ scenarios[s].phase = "body"
  /\ Len(scenarios[s].made) < MaxSteps
  /\ LET r == Perform(scenarios[PageOf(s)].page, c)
     IN scenarios' =
          [t \in 1..NumScenarios |->
            [page |-> IF t = PageOf(s) THEN r.pg ELSE scenarios[t].page,
             phase |-> IF t # s THEN scenarios[t].phase
                       ELSE IF r.ok THEN "body" ELSE "failed",
             made |-> IF t = s THEN Append(scenarios[t].made, c) ELSE scenarios[t].made]]
  /\ UNCHANGED <<sessionVars, retryVars, runner, helperVars>>

Scenario_goto ==
  \E s \in 1..NumScenarios, c \in ScenarioCalls :
    c.op = "LoginPage.goto" /\ Scenario_call(s, c)

Scenario_login ==
  \E s \in 1..NumScenarios, c \in ScenarioCalls :
    c.op = "LoginPage.login" /\ Scenario_call(s, c)

Scenario_addProductToCart ==
  \E s \in 1..NumScenarios, c \in ScenarioCalls :
    c.op = "InventoryPage.addProductToCart" /\ Scenario_call(s, c)

Scenario_goToCart ==
  \E s \in 1..NumScenarios, c \in ScenarioCalls :
    c.op = "InventoryPage.goToCart" /\ Scenario_call(s, c)

InitParallel ==
  /\ InitSession({"up"}, {"cart"}, "idle")
  /\ InitRetryIdle
  /\ runner = [stage |-> "idle"]
  /\ scenarios = [s \in 1..NumScenarios |->
                   [page |-> NewPage("up", "cart"), phase |-> "body", made |-> <<>>]]
  /\ InitHelperIdle

NextParallel ==
  \/ Scenario_goto
  \/ Scenario_login
  \/ Scenario_addProductToCart
  \/ Scenario_goToCart

SpecParallel == InitParallel /\ [][NextParallel]_vars

\* Where the calls `made` take a scenario that runs with nothing beside it.
RECURSIVE Alone(_, _)
Alone(pg, made) ==
  IF made = <<>> THEN Done(pg)
  ELSE LET before == Alone(pg, SubSeq(made, 1, Len(made) - 1))
       IN IF before.ok THEN Perform(before.pg, made[Len(made)]) ELSE before

\* The element a query reads.
QueryReads(op) ==
  CASE op \in {"LoginPage.getErrorMessage", "CheckoutPage.getErrorMessage",
               "CheckoutPage.hasError"} -> Sel("error")
    [] op = "InventoryPage.getCartItemCount" -> Sel(".shopping_cart_badge")
    [] op = "CartPage.getCartItemCount" -> Sel(".cart_item")
    [] op = "CartPage.getTotalPrice" -> Sel(".cart_item .inventory_item_price")
    [] op = "CheckoutPage.getSubtotal" -> Sel(".summary_subtotal_label")
    [] op = "CheckoutPage.getTax" -> Sel(".summary_tax_label")
    [] op = "CheckoutPage.getTotal" -> Sel(".summary_total_label")
    [] op \in {"CheckoutPage.isOrderComplete", "CheckoutPage.getCompleteHeader"} ->
         Sel(".complete-header")

QueryOps ==
  {"LoginPage.getErrorMessage", "CheckoutPage.getErrorMessage", "CheckoutPage.hasError",
   "InventoryPage.getCartItemCount", "CartPage.getCartItemCount", "CartPage.getTotalPrice",
   "CheckoutPage.getSubtotal", "CheckoutPage.getTax", "CheckoutPage.getTotal",
   "CheckoutPage.isOrderComplete", "CheckoutPage.getCompleteHeader"}

(***************************************************************************)
(* The runner setting up the page-object fixtures of test invocations      *)
(***************************************************************************)
NumInvocations == 2   \* test invocations a worker runs one after the other

FixtureNames == {"loginPage", "inventoryPage", "cartPage", "checkoutPage", "productPage"}

\* Each fixture is declared as a bare function `async ({ page }, use) => ...`:
\* no options tuple, hence test scope and not automatic.
FixtureOptions_workerScope(f) == [scope |-> "worker", auto |-> FALSE]
FixtureOptions(f) == [scope |-> "test", auto |-> FALSE]

\* The fixtures an invocation sets up: the ones its test function names in
\* its parameter, and the automatic ones.
Needed(wants) == wants \cup { f \in FixtureNames : FixtureOptions(f).auto }

HeldNames(r) == { i.fixture : i \in r.held }

NewInvocation(inv, wants, kept) ==
  [stage |-> "setup", inv |-> inv, wants |-> wants,
   built |-> [f \in FixtureNames |-> 0], held |-> {}, kept |-> kept]

\* const x = new XPage(page); await use(x)
Runner_setUp ==
  /\ runner.stage = "setup"
  /\ \E f \in Needed(runner.wants) \ HeldNames(runner) :
       LET made == [fixture |-> f, madeIn |-> runner.inv]
           kept == { i \in runner.kept : i.fixture = f }
       IN IF FixtureOptions(f).scope = "worker" /\ kept # {}
          THEN runner' = [runner EXCEPT !.held = @ \cup kept]
          ELSE runner' = [runner EXCEPT
                 !.built[f] = @ + 1,
                 !.held = @ \cup {made},
                 !.kept = IF FixtureOptions(f).scope = "worker" THEN @ \cup {made} ELSE @]
  /\ UNCHANGED <<sessionVars, retryVars, scenarios, helperVars>>

\* every fixture the test names is in use: the test function runs
Runner_runTest ==
  /\ runner.stage = "setup"
  /\ Needed(runner.wants) \subseteq HeldNames(runner)
  /\ runner' = [runner EXCEPT !.stage = "body"]
  /\ UNCHANGED <<sessionVars, retryVars, scenarios, helperVars>>

\* the test function is over: each fixture function resumes after its use()
Runner_tearDown ==
  /\ runner.stage = "body"
  /\ runner' = [runner EXCEPT !.stage = "done", !.held = {}]
  /\ UNCHANGED <<sessionVars, retryVars, scenarios, helperVars>>

Runner_nextTest ==
  /\ runner.stage = "done"
  /\ runner.inv < NumInvocations
  /\ \E wants \in SUBSET FixtureNames :
       runner' = NewInvocation(runner.inv + 1, wants, runner.kept)
  /\ UNCHANGED <<sessionVars, retryVars, scenarios, helperVars>>

InitRunner ==
  /\ InitSession({"up"}, {"cart"}, "idle")
  /\ InitRetryIdle
  /\ scenarios = <<>>
  /\ \E wants \in SUBSET FixtureNames : runner = NewInvocation(1, wants, {})
  /\ InitHelperIdle

NextRunner ==
  \/ Runner_setUp
  \/ Runner_runTest
  \/ Runner_tearDown
  \/ Runner_nextTest

SpecRunner == InitRunner /\ [][NextRunner]_vars

\* The overview's three figures as a scenario reads them off the labels.
Displayed(pg, label) == AmountIn(TextContent(pg, Sel(label)))

DisplayedGap(pg) ==
  Abs(Displayed(pg, ".summary_total_label")
        - (Displayed(pg, ".summary_subtotal_label") + Displayed(pg, ".summary_tax_label")))

\* The catalog prices of the items a scenario added, summed.
PriceOfAdded == SumValues([n \in added |-> page.prices[n]])

\* The keys a scenario reads off the listing under an option: the names
\* for 'az' and 'za', the prices for 'lohi' and 'hilo'.
SortKeys(pg, option) ==
  IF option \in {"az", "za"} THEN InventoryPage_getAllProductNames(pg)
  ELSE InventoryPage_getAllProductPrices(pg)

Descending(option) == IF option = "az" THEN "za" ELSE "hilo"

InAscendingOrder(pg, option) ==
  \A i \in 1..Len(pg.listing), j \in 1..Len(pg.listing) :
    i < j => ~KeyBefore(option, pg.listing[j], pg.listing[i])

Reverse(s) == [i \in 1..Len(s) |-> s[Len(s) + 1 - i]]

\* The calls that only move between screens.
NavigationOps ==
  {"InventoryPage.goToCart", "CartPage.continueShopping", "CartPage.checkout",
   "CheckoutPage.cancel"}

\* The entry screen displays this error text.
LoginErrorShown(pg, text) ==
  LET e == LoginPage_getErrorMessage(pg)
  IN e.ok /\ e.ret = text


(***************************************************************************)
(* test-helpers.ts: the array helpers.  An array element is a number or a  *)
(* reference to an object (an array or a record) held in the heap; two     *)
(* references are the same value only when they name the same object.      *)
(***************************************************************************)
Num(n) == [type |-> "number", v |-> n, ref |-> 0]
Ref(k) == [type |-> "object", v |-> 0, ref |-> k]

Numbers == 1..2
Refs == 1..2
JsValues == {Num(n) : n \in Numbers} \cup {Ref(k) : k \in Refs}

\* What an object holds: an array or a record, with its content.
ObjectContents ==
  { [kind |-> k, items |-> <<n>>] : k \in {"array", "record"}, n \in 1..2 }
Heaps == [Refs -> ObjectContents]

ArraysOf(S) == UNION { [1..n -> S] : n \in 0..MaxLen }

\* x !== y
StrictNotEquals(x, y) == x # y

\* The loop of arraysEqual from index i on (the source counts from 0).
RECURSIVE arraysEqual_loop(_, _, _)
arraysEqual_loop(arr1, arr2, i) ==
  IF ~(i <= Len(arr1)) THEN TRUE
  ELSE IF StrictNotEquals(arr1[i], arr2[i]) THEN FALSE
  ELSE arraysEqual_loop(arr1, arr2, i + 1)

arraysEqual(arr1, arr2) ==
  IF Len(arr1) # Len(arr2) THEN FALSE
  ELSE arraysEqual_loop(arr1, arr2, 1)

ArraysEqualCalls ==
  { [fn |-> "arraysEqual", pc |-> "call", heap |-> h, arr1 |-> a, arr2 |-> b, result |-> FALSE] :
      h \in Heaps, a \in ArraysOf(JsValues), b \in ArraysOf(JsValues) }

Helper_arraysEqual ==
  /\ helper.fn = "arraysEqual"
  /\ helper.pc = "call"
  /\ helper' = [helper EXCEPT !.pc = "return",
                              !.result = arraysEqual(helper.arr1, helper.arr2)]
  /\ UNCHANGED <<sessionVars, retryVars, runnerVars>>

\* The loop of isSortedAscending from index i on: the pair (i, i + 1).
RECURSIVE isSortedAscending_loop_strict(_, _)
isSortedAscending_loop_strict(arr, i) ==
  IF ~(i < Len(arr)) THEN TRUE
  ELSE IF arr[i] >= arr[i + 1] THEN FALSE
  ELSE isSortedAscending_loop_strict(arr, i + 1)

RECURSIVE isSortedAscending_loop(_, _)
isSortedAscending_loop(arr, i) ==
  IF ~(i < Len(arr)) THEN TRUE
  ELSE IF arr[i] > arr[i + 1] THEN FALSE
  ELSE isSortedAscending_loop(arr, i + 1)

isSortedAscending(arr) == isSortedAscending_loop(arr, 1)

RECURSIVE isSortedDescending_loop(_, _)
isSortedDescending_loop(arr, i) ==
  IF ~(i < Len(arr)) THEN TRUE
  ELSE IF arr[i] < arr[i + 1] THEN FALSE
  ELSE isSortedDescending_loop(arr, i + 1)

isSortedDescending(arr) == isSortedDescending_loop(arr, 1)

\* Arrays of numbers, long enough to hold two adjacent pairs.
SortableValues == 1..3
SortableArrays == UNION { [1..n -> SortableValues] : n \in 0..(MaxLen + 1) }

IsSortedCalls ==
  { [fn |-> f, pc |-> "call", arr |-> a, result |-> FALSE] :
      f \in {"isSortedAscending", "isSortedDescending"}, a \in SortableArrays }

Helper_isSortedAscending ==
  /\ helper.fn = "isSortedAscending"
  /\ helper.pc = "call"
  /\ helper' = [helper EXCEPT !.pc = "return", !.result = isSortedAscending(helper.arr)]
  /\ UNCHANGED <<sessionVars, retryVars, runnerVars>>

Helper_isSortedDescending ==
  /\ helper.fn = "isSortedDescending"
  /\ helper.pc = "call"
  /\ helper' = [helper EXCEPT !.pc = "return", !.result = isSortedDescending(helper.arr)]
  /\ UNCHANGED <<sessionVars, retryVars, runnerVars>>

\* price.toFixed(2), for a price in thousandths of a dollar: the nearest
\* number of cents.  A price half-way between two cents goes to the one its
\* binary representation is nearer to; tieUp says which one that is.
toFixed2_wholeDollars(price, tieUp) == 100 * ((price + 500) \div 1000)

toFixed2(price, tieUp) ==
  IF price % 10 = 5
  THEN (IF tieUp THEN price \div 10 + 1 ELSE price \div 10)
  ELSE (price + 5) \div 10

\* `$${price.toFixed(2)}`
formatPrice(price, tieUp) == Money("", toFixed2(price, tieUp))

\* parseFloat(priceString.replace('$', '')): a number of cents, or NaN
parsePrice(priceString) == ParseFloat(WithoutDollar(priceString))

PriceCalls ==
  { [fn |-> "formatPrice", pc |-> "call", price |-> x, tieUp |-> t,
     text |-> Money("", 0), result |-> 0] :
      x \in 0..MaxPrice, t \in BOOLEAN }

Helper_formatPrice ==
  /\ helper.fn = "formatPrice"
  /\ helper.pc = "call"
  /\ helper' = [helper EXCEPT !.pc = "formatted",
                              !.text = formatPrice(helper.price, helper.tieUp)]
  /\ UNCHANGED <<sessionVars, retryVars, runnerVars>>

\* parsePrice applied to what formatPrice returned
Helper_parsePrice ==
  /\ helper.fn = "formatPrice"
  /\ helper.pc = "formatted"
  /\ helper' = [helper EXCEPT !.pc = "return", !.result = parsePrice(helper.text)]
  /\ UNCHANGED <<sessionVars, retryVars, runnerVars>>

InitHelpers ==
  /\ InitSession({"up"}, {"cart"}, "idle")
  /\ InitRetryIdle
  /\ InitRunnerIdle
  /\ helper \in ArraysEqualCalls \cup IsSortedCalls \cup PriceCalls

NextHelpers ==
  \/ Helper_arraysEqual
  \/ Helper_isSortedAscending
  \/ Helper_isSortedDescending
  \/ Helper_formatPrice
  \/ Helper_parsePrice

SpecHelpers == InitHelpers /\ [][NextHelpers]_vars

\* Two elements hold the same value: the same number, or objects of the
\* same kind with the same content.
DeepEquals(heap, x, y) ==
  IF x.type = "object" /\ y.type = "object" THEN heap[x.ref] = heap[y.ref] ELSE x = y


(***************************************************************************)
(* The cart badge read from a page whose header shows any text at all      *)
(***************************************************************************)
BadgeTexts == UNION { [1..n -> Characters] : n \in 0..MaxLen }

InitBadge ==
  /\ \E visible \in BOOLEAN, text \in BadgeTexts :
       page = [NewPage("up", "cart") EXCEPT
                 !.screen = "inventory",
                 !.badge = [bySite |-> FALSE, visible |-> visible, text |-> text]]
  /\ phase = "body"
  /\ setupLog = <<>>
  /\ last = NoCall
  /\ ordered = FALSE
  /\ seenOverview = FALSE
  /\ added = {}
  /\ cartLog = ClosedLog
  /\ InitRetryIdle
  /\ InitRunnerIdle
  /\ InitHelperIdle

NextBadge ==
  \/ Do_getCartItemCount
  \/ Do_productGetCartItemCount

SpecBadge == InitBadge /\ [][NextBadge]_vars


(***************************************************************************)
(* Adding and removing by name, for catalogs whose product names may be    *)
(* contained in one another                                                *)
(***************************************************************************)
NameTexts == UNION { [1..n -> 1..2] : n \in 1..2 }
Catalogs == { c \in SUBSET NameTexts : Cardinality(c) = NumProducts }

InitNames ==
  /\ \E c \in Catalogs :
       \E names \in Enumerations(c) :
         page = [NewPage("up", "cart") EXCEPT
                   !.screen = "inventory",
                   !.prices = [n \in c |-> 999],
                   !.listing = [i \in 1..NumProducts |->
                                 [id |-> i, name |-> names[i], price |-> 999]]]
  /\ phase = "body"
  /\ setupLog = <<>>
  /\ last = NoCall
  /\ ordered = FALSE
  /\ seenOverview = FALSE
  /\ added = {}
  /\ cartLog = ClosedLog
  /\ InitRetryIdle
  /\ InitRunnerIdle
  /\ InitHelperIdle

NextNames ==
  \/ Do_addProductToCart
  \/ Do_removeProductFromCart
  \/ Do_goToCart
  \/ Do_removeProduct
  \/ Do_continueShopping

SpecNames == InitNames /\ [][NextNames]_vars


(***************************************************************************)
(* test-helpers.ts: chunkArray, one loop iteration at a time               *)
(***************************************************************************)
Min(a, b) == IF a < b THEN a ELSE b
Max(a, b) == IF a > b THEN a ELSE b

\* arr.slice(start, end): a negative index counts from the end of the array,
\* both are clamped to the array, and the array itself is left alone.
Slice_dropsLast(arr, start, end) ==
  LET n == Len(arr)
      from == IF start < 0 THEN Max(n + start, 0) ELSE Min(start, n)
      to == IF end < 0 THEN Max(n + end, 0) ELSE Min(end, n)
  IN IF from < to - 1 THEN SubSeq(arr, from + 1, to - 1) ELSE <<>>

Slice(arr, start, end) ==
  LET n == Len(arr)
      from == IF start < 0 THEN Max(n + start, 0) ELSE Min(start, n)
      to == IF end < 0 THEN Max(n + end, 0) ELSE Min(end, n)
  IN IF from < to THEN SubSeq(arr, from + 1, to) ELSE <<>>

ChunkInputs == UNION { [1..n -> 1..2] : n \in 0..(MaxLen + 1) }
ChunkSizes == (-1)..(MaxLen + 2)

\* Iterations of the loop whose chunk and index the model keeps: more than
\* any call with a size of at least 1 makes for an array of ChunkInputs.  A
\* loop that runs on has a size of 0 or less, so its index stays at or below
\* the one kept and its condition stays true; of its further iterations the
\* model keeps the parity.
MaxChunks == MaxLen + 3

\* const chunks = []; let i = 0
ChunkCalls ==
  { [fn |-> "chunkArray", pc |-> "loop", arr |-> a, input |-> a, size |-> s,
     i |-> 0, chunks |-> <<>>, more |-> 0] :
      a \in ChunkInputs, s \in ChunkSizes }

\* i < arr.length: chunks.push(arr.slice(i, i + size)); i += size
Chunk_iterate ==
  /\ helper.fn = "chunkArray"
  /\ helper.pc = "loop"
  /\ helper.i < Len(helper.arr)
  /\ helper' = IF Len(helper.chunks) < MaxChunks
                THEN [helper EXCEPT
                        !.chunks = Append(@, Slice(helper.arr, helper.i, helper.i + helper.size)),
                        !.i = @ + helper.size]
                ELSE [helper EXCEPT !.more = 1 - @]
  /\ UNCHANGED <<sessionVars, retryVars, runnerVars>>

\* the loop condition fails: return chunks
Chunk_return ==
  /\ helper.fn = "chunkArray"
  /\ helper.pc = "loop"
  /\ ~(helper.i < Len(helper.arr))
  /\ helper' = [helper EXCEPT !.pc = "return"]
  /\ UNCHANGED <<sessionVars, retryVars, runnerVars>>

InitChunk ==
  /\ InitSession({"up"}, {"cart"}, "idle")
  /\ InitRetryIdle
  /\ InitRunnerIdle
  /\ helper \in ChunkCalls

NextChunk ==
  \/ Chunk_iterate
  \/ Chunk_return

SpecChunk == InitChunk /\ [][NextChunk]_vars

\* The loop keeps running for as long as it can.
SpecChunkFair == SpecChunk /\ WF_vars(NextChunk)

\* The chunks, one after the other.
RECURSIVE Concat(_)
Concat(chunks) == IF chunks = <<>> THEN <<>> ELSE chunks[1] \o Concat(Tail(chunks))

(***************************************************************************)
(* Properties                                                              *)
(***************************************************************************)
FormFilled(form) ==
  form.firstName # "" /\ form.lastName # "" /\ form.postalCode # ""

\* The cart count a scenario reads on the screen it is on.
DisplayedCount(pg) ==
  IF pg.screen = "cart" THEN CartPage_getCartItemCount(pg)
  ELSE InventoryPage_getCartItemCount(pg)

\* C1: continue on the information step returns normally and shows the
\* overview exactly when the three fields are non-empty; otherwise the
\* information step stays, with an error displayed.  The fields hold what
\* the last fillCheckoutForm was given, on a first and on any later attempt.
C1_ContinueValidatesForm ==
  /\ (last.op = "CheckoutPage.continue" /\ last.pre.screen = "info") =>
       /\ last.ok
       /\ CheckoutPage_isOnCheckoutOverviewStep(page) <=> FormFilled(last.pre.form)
       /\ ~FormFilled(last.pre.form) =>
            CheckoutPage_isOnCheckoutInfoStep(page) /\ CheckoutPage_hasError(page)
  /\ (last.op = "CheckoutPage.fillCheckoutForm" /\ last.pre.screen = "info") =>
       last.ok /\ page.form = last.arg /\ CheckoutPage_isOnCheckoutInfoStep(page)

\* a later attempt, after an earlier one was refused, reaches the overview
C1_Witness ==
  /\ last.op = "CheckoutPage.continue"
  /\ last.pre.screen = "info"
  /\ last.pre.checkoutError # ""
  /\ CheckoutPage_isOnCheckoutOverviewStep(page)

\* C2: the confirmation screen appears only by finish called on the
\* overview (by the scenario, or by completeCheckout after its continue),
\* and a flow that shows it has shown its overview before.
C2_CompleteOnlyByFinish ==
  /\ [][(page'.screen = "complete" /\ page.screen # "complete") =>
          \/ /\ page.screen = "overview"
             /\ last'.op = "CheckoutPage.finish"
          \/ /\ last'.op = "CheckoutPage.completeCheckout"
             /\ CheckoutPage_completeCheckoutInfo(page, last'.arg).pg.screen = "overview"]_vars
  /\ [](page.screen = "complete" => seenOverview)

C2_Witness ==
  /\ CheckoutPage_isOrderComplete(page)
  /\ last.op = "CheckoutPage.finish"
  /\ last.pre.screen = "overview"

C4_BackHomeEmptyCart ==
  (last.op = "CheckoutPage.backHome" /\ last.pre.screen = "complete") =>
    /\ last.ok
    /\ InventoryPage_isOnInventoryPage(page)
    /\ InventoryPage_getCartItemCount(page) = 0

\* back home after buying every item of the catalog
C4_Witness ==
  /\ last.op = "CheckoutPage.backHome"
  /\ last.pre.screen = "complete"
  /\ ordered
  /\ added = Catalog

\* C5: login on the entry screen returns normally; with a valid record the
\* landing screen shows, with a locked or invalid record the entry screen
\* stays and a non-empty error message is displayed.
C5_LoginByClassification ==
  (last.op = "LoginPage.login" /\ last.pre.screen = "login") =>
    /\ last.ok
    /\ \A c \in Credentials :
         last.arg = <<c.username, c.password>> =>
           /\ c.tag = "valid" => InventoryPage_isOnInventoryPage(page)
           /\ c.tag \in {"locked", "invalid"} =>
                /\ LoginPage_isOnLoginPage(page)
                /\ IsVisible(page, Sel("error"))
                /\ TextContent(page, Sel("error")) # ""

C5_Witness ==
  /\ last.op = "LoginPage.login"
  /\ last.pre.screen = "login"
  /\ last.arg = <<lockedOutUser.username, lockedOutUser.password>>
  /\ LoginPage_isOnLoginPage(page)

\* C6: until a purchase is finished, the cart count read on any screen is
\* the number of names the scenario added and did not remove, and a remove
\* that returns lowers the count read by exactly one (an add raises it by one).
C6_CountIsCartSize ==
  /\ []((~ordered /\ page.screen \in HeaderScreens) =>
          /\ InventoryPage_getCartItemCount(page) = Cardinality(added)
          /\ page.screen = "cart" => CartPage_getCartItemCount(page) = Cardinality(added))
  /\ [][(last'.op \in RemoveOps /\ last'.ok) =>
          DisplayedCount(page') = DisplayedCount(page) - 1]_vars
  /\ [][(last'.op \in AddOps /\ last'.ok) =>
          DisplayedCount(page') = DisplayedCount(page) + 1]_vars

\* the whole catalog was added and one item removed again
C6_Witness ==
  /\ last.op \in RemoveOps
  /\ last.ok
  /\ Cardinality(last.pre.cart) = NumProducts
  /\ DisplayedCount(page) = NumProducts - 1

\* C7: in a scenario that adds and removes one product, starting from the
\* empty cart, every add reads count 1 with the product shown as in the
\* cart and every remove reads count 0 with the product not shown, on the
\* catalog as on the cart screen; so what is read after add, remove, add is
\* what was read after the first add.
C7_AddRemoveAdd ==
  LET log == cartLog.calls
  IN /\ \A i \in 1..Len(log) :
          /\ log[i].read.count = (IF log[i].op \in AddOps THEN 1 ELSE 0)
          /\ log[i].read.shown = (log[i].op \in AddOps)
          /\ (log[i].op \in AddOps) = (i % 2 = 1)
     /\ Len(log) >= 3 => log[3].read = log[1].read
     /\ (cartLog.open /\ Len(log) % 2 = 1) => page.cart = {log[1].name}
     /\ (cartLog.open /\ Len(log) % 2 = 0) => page.cart = {}

C7_Witness ==
  /\ Len(cartLog.calls) = 4
  /\ cartLog.calls[2].op = "CartPage.removeProduct"
  /\ cartLog.calls[4].op = "InventoryPage.removeProductFromCart"

\* C8: the action is invoked at most maxAttempts times, never again after an
\* invocation that succeeded, and the call returns the value of that
\* invocation.
C8_RetryStopsAtFirstSuccess ==
  /\ Len(calls) <= maxAttempts
  /\ \A i \in 1..Len(calls) : calls[i].ok => i = Len(calls)
  /\ (calls # <<>> /\ calls[Len(calls)].ok) =>
       /\ rpc = "returned"
       /\ outcome = [kind |-> "returned", value |-> calls[Len(calls)].value]
  /\ rpc = "returned" => (calls # <<>> /\ calls[Len(calls)].ok)

\* success on the last permitted attempt, after failures
C8_Witness ==
  /\ rpc = "returned"
  /\ maxAttempts >= 3
  /\ Len(calls) = maxAttempts

\* C9: retryAction raises only when all maxAttempts invocations failed, it
\* raises one failure, and that failure quotes the message of the last
\* invocation's failure and of no earlier failure with another message.
C9_RetryQuotesLastError ==
  /\ rpc = "thrown" =>
       /\ outcome.kind = "thrown"
       /\ Len(calls) = maxAttempts
       /\ \A i \in 1..Len(calls) : ~calls[i].ok
       /\ Len(outcome.quoted) = 1
       /\ calls # <<>> =>
            /\ outcome.quoted[1] = calls[Len(calls)].message
            /\ \A i \in 1..(Len(calls) - 1) :
                 calls[i].message # calls[Len(calls)].message =>
                   \A k \in 1..Len(outcome.quoted) : outcome.quoted[k] # calls[i].message
  /\ (Len(calls) = maxAttempts /\ \A i \in 1..Len(calls) : ~calls[i].ok) =>
       rpc \in {"loop", "thrown"}
  /\ outcome.kind = "thrown" => rpc = "thrown"

C9_Witness ==
  /\ rpc = "thrown"
  /\ Len(calls) >= 2
  /\ calls[1].message # calls[Len(calls)].message

\* C10: the test body starts only after goto, login with the default valid
\* credential and the wait for the inventory container have completed in
\* that order, with the container visible; when the container does not show,
\* the wait fails the invocation, and a failed invocation runs no body.
C10_BodyAfterSetup ==
  /\ [](phase \in {"use", "body"} => setupLog = <<"goto", "login", "waitFor">>)
  /\ [](phase = "use" => InventoryPage_isOnInventoryPage(page))
  /\ [](phase = "waitFor" =>
          /\ last.op = "login"
          /\ last.pre.screen = "login"
          /\ page.screen = "login" => page.username = validUsers[1].username
          /\ page.screen = "login" => page.password = validUsers[1].password)
  /\ [][(phase = "waitFor" /\ ~InventoryPage_isOnInventoryPage(page)) =>
          phase' = "failed"]_vars
  /\ [][phase = "failed" => phase' = "failed"]_vars
  /\ [](Len(setupLog) < 3 => last.op \in {"none", "goto", "login", "waitFor"})

C10_Witness ==
  /\ phase = "body"
  /\ setupLog = <<"goto", "login", "waitFor">>
  /\ last.op = "waitFor"

C12_AddMultipleStopsAtFailure ==
  (last.op = "InventoryPage.addMultipleProductsToCart") =>
    LET k == FirstWithoutButton(last.pre, last.arg)
    IN /\ last.ok = (k > Len(last.arg))
       /\ page.cart = last.pre.cart \cup NamesBefore(last.arg, k)
       /\ page.screen = last.pre.screen

C12_Witness ==
  /\ last.op = "InventoryPage.addMultipleProductsToCart"
  /\ last.pre.screen = "inventory"
  /\ ~last.ok
  /\ FirstWithoutButton(last.pre, last.arg) = 2
  /\ page.cart # last.pre.cart

\* C13: a query whose element is absent from the current screen returns its
\* neutral value (0, the empty string, false) and does not raise.
C13_QueriesReturnNeutral ==
  (last.op \in QueryOps /\ ~IsVisible(last.pre, QueryReads(last.op))) =>
    /\ last.ok
    /\ last.ret =
         CASE last.op \in {"CheckoutPage.hasError", "CheckoutPage.isOrderComplete"} -> FALSE
           [] last.op \in {"LoginPage.getErrorMessage", "CheckoutPage.getErrorMessage",
                           "CheckoutPage.getCompleteHeader"} -> ""
           [] OTHER -> 0

C16_SumOfCatalogPrices ==
  /\ (last.op = "CartPage.getTotalPrice" /\ last.pre.screen = "cart") =>
       /\ last.ok
       /\ Abs(last.ret - PriceOfAdded) < Tolerance
       /\ added = {} => last.ret = 0
       /\ { page.prices[n] : n \in added } = {2999, 999} /\ Cardinality(added) = 2
            => last.ret = 3998
  /\ (last.op = "CheckoutPage.getSubtotal" /\ last.pre.screen = "overview") =>
       /\ last.ok
       /\ Abs(last.ret - PriceOfAdded) < Tolerance
       /\ { page.prices[n] : n \in added } = {2999, 999} /\ Cardinality(added) = 2
            => last.ret = 3998

C16_Witness ==
  /\ last.op = "CheckoutPage.getSubtotal"
  /\ last.pre.screen = "overview"
  /\ Cardinality(added) = 2
  /\ { page.prices[n] : n \in added } = {2999, 999}
  /\ last.ret = 3998

\* C17 as stated: on a listing already in an ascending order ('az' or
\* 'lohi'), that ascending option leaves the sequence of items unchanged and
\* the matching descending option yields exactly its reverse, also when two
\* items have the same name or price.
C17_SortKeepsItemSequence ==
  (last.op = "InventoryPage.sortProducts" /\ last.pre.screen = "inventory") =>
    \A asc \in {"az", "lohi"} :
      InAscendingOrder(last.pre, asc) =>
        /\ last.arg = asc => page.listing = last.pre.listing
        /\ last.arg = Descending(asc) => page.listing = Reverse(last.pre.listing)

\* C17, amended: the same for the sequence of sort keys (the names under
\* 'az'/'za', the prices under 'lohi'/'hilo'); which of two items with equal
\* keys comes first is the site's choice.
C17_SortKeepsKeySequence ==
  (last.op = "InventoryPage.sortProducts" /\ last.pre.screen = "inventory") =>
    /\ last.ok
    /\ \A asc \in {"az", "lohi"} :
         InAscendingOrder(last.pre, asc) =>
           /\ last.arg = asc => SortKeys(page, asc) = SortKeys(last.pre, asc)
           /\ last.arg = Descending(asc) =>
                SortKeys(page, asc) = Reverse(SortKeys(last.pre, asc))

C17_Witness ==
  /\ last.op = "InventoryPage.sortProducts"
  /\ last.arg = "hilo"
  /\ last.pre.screen = "inventory"
  /\ InAscendingOrder(last.pre, "lohi")
  /\ \E i \in 1..Len(page.listing), j \in 1..Len(page.listing) :
       i # j /\ page.listing[i].price = page.listing[j].price
  /\ page.listing # Reverse(last.pre.listing)
  /\ SortKeys(page, "lohi") = Reverse(SortKeys(last.pre, "lohi"))

\* C18: goToCart, continueShopping, checkout and cancel leave the cart as it
\* is: after each of them, on whatever cart, the items in the cart and the
\* item count a scenario reads are the ones from before the call.
C18_NavigationKeepsCart ==
  (last.op \in NavigationOps) =>
    /\ page.cart = last.pre.cart
    /\ (last.pre.screen \in HeaderScreens /\ page.screen \in HeaderScreens) =>
         DisplayedCount(page) = DisplayedCount(last.pre)
    /\ page.screen = "cart" =>
         \A n \in Catalog : CartPage_isProductInCart(page, n) = (n \in last.pre.cart)

C18_Witness ==
  /\ last.op = "CheckoutPage.cancel"
  /\ last.ok
  /\ last.pre.screen = "overview"
  /\ page.screen = "cart"
  /\ Cardinality(page.cart) >= 2
  /\ CartPage_getCartItemCount(page) = Cardinality(last.pre.cart)

\* C19: removeAllProducts on the cart screen returns, whatever the number of
\* items in the cart, and leaves the cart empty: getCartItemCount is 0,
\* isEmpty is true, and the checkout button is still visible.
C19_RemoveAllEmptiesCart ==
  (last.op = "CartPage.removeAllProducts" /\ last.pre.screen = "cart") =>
    /\ last.ok
    /\ page.screen = "cart"
    /\ CartPage_getCartItemCount(page) = 0
    /\ CartPage_isEmpty(page)
    /\ IsVisible(page, Sel("checkout"))

C19_Witness ==
  /\ last.op = "CartPage.removeAllProducts"
  /\ last.pre.screen = "cart"
  /\ Cardinality(last.pre.cart) = NumProducts
  /\ last.ok
  /\ CartPage_isEmpty(page)

\* C20: login on the entry screen with an empty username shows 'Username is
\* required' whether or not the password is empty; 'Password is required'
\* is shown only when the username is non-empty and the password is empty;
\* in both cases the entry screen stays.
C20_RequiredFieldPrecedence ==
  (last.op = "LoginPage.login" /\ last.pre.screen = "login") =>
    /\ last.arg[1] = "" =>
         /\ LoginErrorShown(page, "Username is required")
         /\ LoginPage_isOnLoginPage(page)
    /\ LoginErrorShown(page, "Password is required") <=>
         (last.arg[1] # "" /\ last.arg[2] = "")
    /\ LoginErrorShown(page, "Password is required") => LoginPage_isOnLoginPage(page)

C20_Witness ==
  /\ last.op = "LoginPage.login"
  /\ last.pre.screen = "login"
  /\ last.arg = <<"", "">>
  /\ LoginErrorShown(page, "Username is required")
  /\ LoginPage_isOnLoginPage(page)

\* C21: arraysEqual(a, b) returns true exactly when a and b have the same
\* length and every pair of corresponding elements is equal in value,
\* elements that are arrays or records included.
C21_ArraysEqualIsDeep ==
  (helper.fn = "arraysEqual" /\ helper.pc = "return") =>
    (helper.result <=>
       /\ Len(helper.arr1) = Len(helper.arr2)
       /\ \A i \in 1..Len(helper.arr1) :
            DeepEquals(helper.heap, helper.arr1[i], helper.arr2[i]))

\* C22: isSortedAscending returns true exactly when every adjacent pair is
\* non-decreasing, isSortedDescending exactly when every adjacent pair is
\* non-increasing; both return true for the empty and for every one-element
\* sequence.
C22_IsSortedChecksAdjacentPairs ==
  /\ (helper.fn = "isSortedAscending" /\ helper.pc = "return") =>
       /\ helper.result <=>
            \A i \in 1..(Len(helper.arr) - 1) : helper.arr[i] <= helper.arr[i + 1]
       /\ Len(helper.arr) <= 1 => helper.result
  /\ (helper.fn = "isSortedDescending" /\ helper.pc = "return") =>
       /\ helper.result <=>
            \A i \in 1..(Len(helper.arr) - 1) : helper.arr[i] >= helper.arr[i + 1]
       /\ Len(helper.arr) <= 1 => helper.result

\* An array with an equal pair followed by a falling pair was checked in the
\* ascending direction and rejected.
C22_Witness ==
  /\ helper.fn = "isSortedAscending"
  /\ helper.pc = "return"
  /\ Len(helper.arr) = 3
  /\ helper.arr[1] = helper.arr[2]
  /\ helper.arr[2] > helper.arr[3]
  /\ ~helper.result

\* C23: for every non-negative price x, parsePrice(formatPrice(x)) is a
\* number that differs from x by less than 0.01 (prices in thousandths of a
\* dollar, the parsed amount in cents).
C23_PriceRoundTrip ==
  (helper.fn = "formatPrice" /\ helper.pc = "return") =>
    Abs(10 * helper.result - helper.price) < 10 * Tolerance

\* A price that is not a whole number of cents went through both functions
\* and came back as a different amount.
C23_Witness ==
  /\ helper.fn = "formatPrice"
  /\ helper.pc = "return"
  /\ helper.price > 1000
  /\ helper.price % 10 = 5
  /\ helper.text.dollar
  /\ 10 * helper.result # helper.price

\* C24: fillCheckoutInfo({firstName, lastName, postalCode}) and
\* fillCheckoutForm(firstName, lastName, postalCode), started on the same
\* page with the same three values, make the same fills in the same order
\* (first name, last name, postal code), end alike and leave the same form,
\* and neither submits the form: the step shown and its error stay as they
\* were.
C24_FillMethodsEquivalent ==
  last.op \in {"CheckoutPage.fillCheckoutInfo", "CheckoutPage.fillCheckoutForm"} =>
    LET a == last.arg
        byInfo == CheckoutPage_fillCheckoutInfo(last.pre, a)
        byForm == CheckoutPage_fillCheckoutForm(last.pre, a.firstName, a.lastName, a.postalCode)
        formFills == CheckoutPage_fillCheckoutForm_fills(a.firstName, a.lastName, a.postalCode)
    IN /\ byInfo = byForm
       /\ CheckoutPage_fillCheckoutInfo_fills(a) = formFills
       /\ [i \in 1..Len(formFills) |-> formFills[i].q.css] = <<"firstName", "lastName", "postalCode">>
       /\ FillEach(last.pre, formFills) = byForm
       /\ last.ok = byInfo.ok
       /\ page = byInfo.pg
       /\ page.screen = last.pre.screen
       /\ page.checkoutError = last.pre.checkoutError
       /\ last.ok => page.form = a

\* fillCheckoutInfo changed the form of the information step, with the last
\* name left empty.
C24_Witness ==
  /\ last.op = "CheckoutPage.fillCheckoutInfo"
  /\ last.ok
  /\ page.screen = "info"
  /\ last.pre.form # page.form
  /\ page.form = [firstName |-> "John", lastName |-> "", postalCode |-> "John"]

\* C25: completeCheckout(info) started on the information step fills the
\* form, then continues, then finishes, and returns normally only when the
\* order is complete: with the three fields non-empty it passes through the
\* overview and ends on the complete step; with a field empty the flow
\* stays on the information step, never reaches the complete step, and the
\* call raises.
C25_CompleteCheckoutOutcome ==
  (last.op = "CheckoutPage.completeCheckout" /\ last.pre.screen = "info") =>
    LET info == last.arg
        filled == CheckoutPage_fillCheckoutInfo(last.pre, info)
        continued == CheckoutPage_continue(filled.pg)
        finished == CheckoutPage_finish(continued.pg)
    IN /\ filled.ok /\ filled.pg.form = info /\ filled.pg.screen = "info"
       /\ continued.ok
       /\ page = finished.pg
       /\ last.ok = finished.ok
       /\ last.ok => page.screen = "complete"
       /\ IF FormFilled(info)
          THEN continued.pg.screen = "overview" /\ last.ok /\ page.screen = "complete"
          ELSE /\ continued.pg.screen = "info"
               /\ ~last.ok
               /\ page.screen = "info"
               /\ phase = "failed"

\* completeCheckout was called on the information step with the postal code
\* empty: the step shows its error and the call raised.
C25_Witness ==
  /\ last.op = "CheckoutPage.completeCheckout"
  /\ last.pre.screen = "info"
  /\ last.arg.firstName # ""
  /\ last.arg.postalCode = ""
  /\ ~last.ok
  /\ page.screen = "info"
  /\ page.checkoutError # ""

\* The waits retryAction owes: one for every failed invocation that is not
\* the maxAttempts-th.
WaitsOwed == Cardinality({ i \in 1..Len(calls) : ~calls[i].ok /\ i < maxAttempts })

\* retryAction waits only between attempts: after a failed invocation that
\* is not the maxAttempts-th and before the next one, never before the first
\* invocation, after a resolved one or after the last failed one.
WaitsOnlyBetweenAttempts ==
  /\ rpc \in {"loop", "returned", "thrown"} => waits = WaitsOwed
  /\ rpc = "wait" =>
       /\ waits = WaitsOwed - 1
       /\ calls # <<>> /\ ~calls[Len(calls)].ok /\ Len(calls) < maxAttempts
  /\ calls = <<>> => waits = 0
  /\ rpc = "returned" => waits = Len(calls) - 1

\* C26 as stated: retryAction waits only between attempts, k failures then
\* a success give k waits, and exhaustion gives maxAttempts - 1 waits.
C26_WaitsAsStated ==
  /\ WaitsOnlyBetweenAttempts
  /\ rpc = "thrown" => waits = maxAttempts - 1

\* C26: retryAction waits only between attempts, k failures then a success
\* give k waits, and exhaustion gives maxAttempts - 1 waits when maxAttempts
\* is at least 1 and no wait when it is 0: the loop body never runs then.
C26_WaitsBetweenAttempts ==
  /\ WaitsOnlyBetweenAttempts
  /\ rpc = "thrown" => waits = (IF maxAttempts >= 1 THEN maxAttempts - 1 ELSE 0)

\* Three attempts failed and retryAction gave up, having waited twice.
C26_Witness ==
  /\ rpc = "thrown"
  /\ maxAttempts = 3
  /\ Len(calls) = 3
  /\ waits = 2

\* C27: InventoryPage.getCartItemCount and ProductPage.getCartItemCount
\* return a number that is not NaN: 0 when the badge is not visible, the
\* badge's number when its text is numeric, and 0 when the text is missing
\* or does not parse as a number.
C27_CountIsNeverNaN ==
  last.op \in {"InventoryPage.getCartItemCount", "ProductPage.getCartItemCount"} =>
    LET text == last.pre.badge.text
        visible == BadgeShown(last.pre)
    IN /\ last.ok
       /\ last.ret # NaN
       /\ ~visible => last.ret = 0
       /\ (visible /\ text # <<>> /\ \A i \in 1..Len(text) : IsDigit(text[i])) =>
            last.ret = ParseInt(text)
       /\ (visible /\ (text = <<>> \/ ~IsDigit(text[1]))) => last.ret = 0

\* C28: for every cart and every product name in it, carts where one name
\* is contained in another included, CartPage.removeProduct(name) removes
\* exactly the line of the product with that name and leaves every other
\* line; InventoryPage.addProductToCart(name) adds exactly the product with
\* that name.
C28_ByNameActsOnThatProduct ==
  /\ (/\ last.op = "CartPage.removeProduct"
      /\ last.pre.screen = "cart"
      /\ last.arg \in last.pre.cart) =>
       last.ok /\ page.cart = last.pre.cart \ {last.arg}
  /\ (/\ last.op = "InventoryPage.addProductToCart"
      /\ last.pre.screen = "inventory"
      /\ last.arg \in DOMAIN last.pre.prices
      /\ last.arg \notin last.pre.cart) =>
       last.ok /\ page.cart = last.pre.cart \cup {last.arg}

\* C29: chunkArray(arr, size) terminates for every array and every integer
\* size, size 0 and negative sizes included: every call returns.
C29_ChunkArrayTerminates == <>(helper.pc = "return")

\* C30: for every array and every size of at least 1, the chunks chunkArray
\* returns, put one after the other, are the input array; every chunk but
\* the last has exactly size elements, the last between 1 and size; an
\* empty input gives no chunks; the input array is left unchanged.
C30_ChunksPartitionInput ==
  (helper.fn = "chunkArray" /\ helper.pc = "return" /\ helper.size >= 1) =>
    LET chunks == helper.chunks
    IN /\ Concat(chunks) = helper.input
       /\ \A k \in 1..(Len(chunks) - 1) : Len(chunks[k]) = helper.size
       /\ chunks # <<>> =>
            /\ Len(chunks[Len(chunks)]) >= 1
            /\ Len(chunks[Len(chunks)]) <= helper.size
       /\ helper.input = <<>> => chunks = <<>>
       /\ helper.arr = helper.input

\* Three elements were cut by twos: a full chunk and a last chunk of one.
C30_Witness ==
  /\ helper.fn = "chunkArray"
  /\ helper.pc = "return"
  /\ helper.size = 2
  /\ Len(helper.input) = 3
  /\ Len(helper.chunks) = 2
  /\ Len(helper.chunks[2]) = 1

====
